---- MODULE Spec2Model ----
(***************************************************************************)
(* Model of src/main.py: a MicroPython program that reads a DHT11 sensor   *)
(* on a periodic timer and publishes the reading to an MQTT broker.        *)
(*                                                                         *)
(* Two threads of control: the timer callback (interrupt context), which   *)
(* only sets measure_pending, and main(), which is modelled statement by   *)
(* statement with a program counter pc.  The radio link, the sensor, the   *)
(* MQTT transport, the clock and the operator's Ctrl-C (KeyboardInterrupt) *)
(* are the environment: each of their outcomes is a nondeterministic       *)
(* choice.                                                                 *)
(***************************************************************************)
EXTENDS Integers, Sequences, FiniteSets, TLC

\* ------------------------------------------------------------------ bounds
\* Largest value of the coarse clock read by time.time() in the main loop.
MaxNow == 1
\* The tick counter kept for the coalescing claims saturates here.
MaxTicks == 2
\* The count of open sessions saturates here.
MaxOpen == 2

\* ------------------------------------------------------- program constants
\* timeout = 15 (seconds) in connect_wifi.
WIFI_TIMEOUT == 15
THING_NAME == "Your thing name"
MQTT_TOPIC == "devices/" \o THING_NAME \o "/telemetry"

\* Values the sensor can return (temperature, humidity).
TempVals == {24, 31}
HumVals == {55}

\* mqtt_client is None or refers to the one MQTTClient object; the object's
\* condition is part of the value:
\*   "new"         constructed, connect() never called
\*   "connecting"  connect() in progress
\*   "connected"   connect() returned normally
\*   "broken"      publish() raised on it
\*   "closed"      disconnect() returned normally
None == "None"
ClientStates == {None, "new", "connecting", "connected", "broken", "closed"}

VARIABLES
    pc,                 \* position of main()
    ret,                \* who called mqtt_connect: "init", "publish", "backoff"
    link,               \* wlan.isconnected()
    wifi_connected,     \* global wifi_connected
    elapsed,            \* time.time() - start in connect_wifi (seconds)
    half,               \* half seconds slept since the last full second
    timer_running,      \* Timer(1) is armed
    measure_pending,    \* global measure_pending
    mqtt_client,        \* global mqtt_client
    last_measure_time,  \* global last_measure_time
    now,                \* time.time() in the main loop (coarse)
    reading,            \* <<temp, hum>> in measure_and_publish, << >> outside
    payload_json,       \* payload_json in measure_and_publish, << >> outside
    conn_ok,            \* value returned by the last mqtt_connect()
    pub_ok,             \* value returned by the last mqtt_publish()
    success,            \* value returned by the last measure_and_publish()
    stop_requested,     \* a KeyboardInterrupt has been raised
    \* observation only (never read by the program's actions):
    log,                \* calls made since the cycle started or the poll slept
    owed,               \* a tick has fired and no cycle has started since
    ticks_since_take,   \* ticks since the flag was last cleared (saturating)
    raced,              \* a tick fired between the test and the clear of this poll
    sent,               \* <<topic, payload>> handed to the transport in this cycle
    open_conns,         \* sessions connect() has opened and nothing has closed
    \* environment:
    broker_good         \* the broker accepts every connect and publish from here on

vars == <<pc, ret, link, wifi_connected, elapsed, half, timer_running,
          measure_pending, mqtt_client, last_measure_time, now, reading,
          payload_json, conn_ok, pub_ok, success, stop_requested,
          log, owed, ticks_since_take, raced, sent, open_conns, broker_good>>

\* Groups used in UNCHANGED clauses.
wifiVars == <<link, wifi_connected, elapsed, half>>
cycleVars == <<reading, payload_json, conn_ok, pub_ok, success>>
tickVars == <<measure_pending, owed, ticks_since_take, raced>>
netVars == <<sent, open_conns, broker_good>>

Min(a, b) == IF a < b THEN a ELSE b

\* One entry of the log: the call, the session state at the call, its outcome.
Ev(op, st, ok) == [op |-> op, st |-> st, ok |-> ok]
Logged(op, st, ok) == log' = Append(log, Ev(op, st, ok))

\* ------------------------------------------------------------- pure parts
\* payload dict built in measure_and_publish.
Payload(ts, temp, hum) ==
    [thing |-> THING_NAME, timestamp |-> ts,
     temperature_C |-> temp, humidity_pct |-> hum]

\* json.dumps of that dict: the key/value pairs, one after the other.
json_dumps(p) ==
    << <<"thing", p.thing>>, <<"timestamp", p.timestamp>>,
       <<"temperature_C", p.temperature_C>>, <<"humidity_pct", p.humidity_pct>> >>

\* Reading the text back (json.loads): the map from each key to the value of
\* its last pair.
json_loads(s) ==
    [k \in {s[i][1] : i \in DOMAIN s} |->
        s[CHOOSE i \in DOMAIN s :
            /\ s[i][1] = k
            /\ \A j \in DOMAIN s : s[j][1] = k => j <= i][2]]

\* Sessions open after connect() returned, and after one was closed.
Opened(n) == Min(n + 1, MaxOpen)
Closed(n) == IF n > 0 THEN n - 1 ELSE 0

\* make_mqtt_client(): a fresh, never connected client.
make_mqtt_client == "new"

\* mqtt_connect's except branch: mqtt_client = None.
ConnectFailedKeep(c) == c
ConnectFailed(c) == None

\* mqtt_publish's except branch, after the disconnect attempt: mqtt_client = None.
PublishFailedKeep(c) == c
PublishFailed(c) == None

Init ==
    /\ pc = "cw_check"
    /\ ret = "init"
    /\ link \in BOOLEAN
    /\ wifi_connected = FALSE
    /\ elapsed = 0
    /\ half = 0
    /\ timer_running = FALSE
    /\ measure_pending = FALSE
    /\ mqtt_client = None
    /\ last_measure_time = 0
    /\ now = 0
    /\ reading = << >>
    /\ payload_json = << >>
    /\ conn_ok = FALSE
    /\ pub_ok = FALSE
    /\ success = FALSE
    /\ stop_requested = FALSE
    /\ log = << >>
    /\ owed = FALSE
    /\ ticks_since_take = 0
    /\ raced = FALSE
    /\ sent = << >>
    /\ open_conns = 0
    /\ broker_good = FALSE

\* ------------------------------------------------------------ environment
\* Variant of timer_callback that also stamps last_measure_time.
timer_callback_stamping ==
    /\ timer_running
    /\ measure_pending' = TRUE
    /\ last_measure_time' = now
    /\ owed' = TRUE
    /\ ticks_since_take' = Min(ticks_since_take + 1, MaxTicks)
    /\ raced' = (raced \/ pc = "loop_clear")
    /\ UNCHANGED <<pc, ret, wifiVars, timer_running, mqtt_client,
                   now, cycleVars, stop_requested, log, netVars>>

\* timer_callback(t): measure_pending = True.  Fires whenever the timer is
\* armed, at any point of main() (any period, any phase).
timer_callback ==
    /\ timer_running
    /\ measure_pending' = TRUE
    /\ owed' = TRUE
    /\ ticks_since_take' = Min(ticks_since_take + 1, MaxTicks)
    /\ raced' = (raced \/ pc = "loop_clear")
    /\ UNCHANGED <<pc, ret, wifiVars, timer_running, mqtt_client,
                   last_measure_time, now, cycleVars, stop_requested, log, netVars>>

\* The radio associates once wlan.connect() was issued.
LinkUp ==
    /\ ~link
    /\ pc \in {"cw_poll", "cw_sleep"}
    /\ link' = TRUE
    /\ UNCHANGED <<pc, ret, wifi_connected, elapsed, half, timer_running,
                   tickVars, mqtt_client, last_measure_time, now, cycleVars,
                   stop_requested, log, netVars>>

\* The link is lost.
LinkDown ==
    /\ link
    /\ pc \notin {"exited", "aborted"}
    /\ link' = FALSE
    /\ UNCHANGED <<pc, ret, wifi_connected, elapsed, half, timer_running,
                   tickVars, mqtt_client, last_measure_time, now, cycleVars,
                   stop_requested, log, netVars>>

\* The broker comes back: from here on connect() and publish() return.
BrokerRecovers ==
    /\ ~broker_good
    /\ pc \notin {"exited", "aborted"}
    /\ broker_good' = TRUE
    /\ UNCHANGED <<pc, ret, wifiVars, timer_running, tickVars, mqtt_client,
                   last_measure_time, now, cycleVars, stop_requested, log,
                   sent, open_conns>>

\* A second passes on the clock time.time() reads in the main loop.
ClockAdvance ==
    /\ now < MaxNow
    /\ pc \notin {"exited", "aborted"}
    /\ now' = now + 1
    /\ UNCHANGED <<pc, ret, wifiVars, timer_running, tickVars, mqtt_client,
                   last_measure_time, cycleVars, stop_requested, log, netVars>>

\* ----------------------------------------------------------- connect_wifi
\* if not wlan.isconnected():
cw_check ==
    /\ pc = "cw_check"
    /\ pc' = IF link THEN "cw_done" ELSE "cw_begin"
    /\ UNCHANGED <<ret, wifiVars, timer_running, tickVars, mqtt_client,
                   last_measure_time, now, cycleVars, stop_requested, log, netVars>>

\* wlan.active(True); wlan.connect(...); start = time.time().  The call is
\* made at any phase of the running second.
cw_begin ==
    /\ pc = "cw_begin"
    /\ elapsed' = 0
    /\ half' \in {0, 1}
    /\ pc' = "cw_poll"
    /\ UNCHANGED <<ret, link, wifi_connected, timer_running, tickVars,
                   mqtt_client, last_measure_time, now, cycleVars,
                   stop_requested, log, netVars>>

\* while not wlan.isconnected():
cw_poll ==
    /\ pc = "cw_poll"
    /\ pc' = IF link THEN "cw_done" ELSE "cw_deadline"
    /\ UNCHANGED <<ret, wifiVars, timer_running, tickVars, mqtt_client,
                   last_measure_time, now, cycleVars, stop_requested, log, netVars>>

\* Variant of cw_deadline after which main carries on without the link (the
\* result of connect_wifi is not tested).
cw_deadline_unchecked ==
    /\ pc = "cw_deadline"
    /\ IF elapsed > WIFI_TIMEOUT
       THEN /\ wifi_connected' = FALSE
            /\ elapsed' = 0
            /\ half' = 0
            /\ pc' = "timer_init"
       ELSE /\ pc' = "cw_sleep"
            /\ UNCHANGED <<wifi_connected, elapsed, half>>
    /\ UNCHANGED <<ret, link, timer_running, tickVars, mqtt_client,
                   last_measure_time, now, cycleVars, stop_requested, log, netVars>>

\* if time.time() - start > timeout: wifi_connected = False; return False
cw_deadline ==
    /\ pc = "cw_deadline"
    /\ IF elapsed > WIFI_TIMEOUT
       THEN /\ wifi_connected' = FALSE
            /\ elapsed' = 0
            /\ half' = 0
            /\ pc' = "fatal_sleep"
       ELSE /\ pc' = "cw_sleep"
            /\ UNCHANGED <<wifi_connected, elapsed, half>>
    /\ UNCHANGED <<ret, link, timer_running, tickVars, mqtt_client,
                   last_measure_time, now, cycleVars, stop_requested, log, netVars>>

\* Variant of cw_sleep in which the loop issues wlan.connect() and takes start
\* again on every round.
cw_sleep_restarting ==
    /\ pc = "cw_sleep"
    /\ half' = 1 - half
    /\ elapsed' = IF half = 1 THEN elapsed + 1 ELSE elapsed
    /\ pc' = "cw_begin"
    /\ UNCHANGED <<ret, link, wifi_connected, timer_running, tickVars,
                   mqtt_client, last_measure_time, now, cycleVars,
                   stop_requested, log, netVars>>

\* time.sleep(0.5): every second half second moves time.time() on by one.
cw_sleep ==
    /\ pc = "cw_sleep"
    /\ half' = 1 - half
    /\ elapsed' = IF half = 1 THEN elapsed + 1 ELSE elapsed
    /\ pc' = "cw_poll"
    /\ UNCHANGED <<ret, link, wifi_connected, timer_running, tickVars,
                   mqtt_client, last_measure_time, now, cycleVars,
                   stop_requested, log, netVars>>

\* wifi_connected = True; return True
cw_done ==
    /\ pc = "cw_done"
    /\ wifi_connected' = TRUE
    /\ elapsed' = 0
    /\ half' = 0
    /\ pc' = "timer_init"
    /\ UNCHANGED <<ret, link, timer_running, tickVars, mqtt_client,
                   last_measure_time, now, cycleVars, stop_requested, log, netVars>>

\* ------------------------------------------------------- main, before loop
\* print("Cannot continue without WiFi. Rebooting in 10s."); time.sleep(10)
fatal_sleep ==
    /\ pc = "fatal_sleep"
    /\ pc' = "reset"
    /\ UNCHANGED <<ret, wifiVars, timer_running, tickVars, mqtt_client,
                   last_measure_time, now, cycleVars, stop_requested, log, netVars>>

\* machine.reset(): the device reboots and the program starts over.
machine_reset ==
    /\ pc = "reset"
    /\ pc' = "cw_check"
    /\ ret' = "init"
    /\ link' = FALSE
    /\ wifi_connected' = FALSE
    /\ elapsed' = 0
    /\ half' = 0
    /\ timer_running' = FALSE
    /\ measure_pending' = FALSE
    /\ mqtt_client' = None
    /\ last_measure_time' = 0
    /\ now' = 0
    /\ reading' = << >>
    /\ payload_json' = << >>
    /\ conn_ok' = FALSE
    /\ pub_ok' = FALSE
    /\ success' = FALSE
    /\ stop_requested' = FALSE
    /\ log' = << >>
    /\ owed' = FALSE
    /\ ticks_since_take' = 0
    /\ raced' = FALSE
    /\ sent' = << >>
    /\ open_conns' = 0
    /\ UNCHANGED broker_good

\* tm = Timer(1); tm.init(period=..., mode=Timer.PERIODIC, callback=...)
\* followed by the call mqtt_connect() of the initial connect.
timer_init ==
    /\ pc = "timer_init"
    /\ timer_running' = TRUE
    /\ ret' = "init"
    /\ pc' = "mc_enter"
    /\ UNCHANGED <<wifiVars, tickVars, mqtt_client, last_measure_time, now,
                   cycleVars, stop_requested, log, netVars>>

\* ----------------------------------------------------------- mqtt_connect
\* if mqtt_client is None: mqtt_client = make_mqtt_client()
mc_enter ==
    /\ pc = "mc_enter"
    /\ mqtt_client' = IF mqtt_client = None THEN make_mqtt_client ELSE mqtt_client
    /\ Logged("mqtt_connect", mqtt_client, TRUE)
    /\ pc' = "mc_connect"
    /\ UNCHANGED <<ret, wifiVars, timer_running, tickVars, last_measure_time,
                   now, cycleVars, stop_requested, netVars>>

\* mqtt_client.connect() is entered: the transport connect begins, whatever
\* the client's condition.
mc_connect ==
    /\ pc = "mc_connect"
    /\ mqtt_client' = "connecting"
    /\ pc' = "mc_result"
    /\ UNCHANGED <<ret, wifiVars, timer_running, tickVars, last_measure_time,
                   now, cycleVars, stop_requested, log, netVars>>

\* connect() returns (return True) or raises (mqtt_client = None; return False).
mc_result ==
    /\ pc = "mc_result"
    /\ \E ok \in BOOLEAN :
        /\ broker_good => ok
        /\ conn_ok' = ok
        /\ mqtt_client' = IF ok THEN "connected" ELSE ConnectFailed(mqtt_client)
        /\ Logged("connect", mqtt_client, ok)
        /\ open_conns' = IF ok THEN Opened(open_conns) ELSE open_conns
    /\ pc' = "mc_ret"
    /\ UNCHANGED <<ret, wifiVars, timer_running, tickVars, last_measure_time,
                   now, reading, payload_json, pub_ok, success, stop_requested,
                   sent, broker_good>>

\* Variant of mc_ret in which main retries the reconnect until it succeeds.
mc_ret_retrying ==
    /\ pc = "mc_ret"
    /\ pc' = CASE ret = "init" -> "loop_test"
               [] ret = "publish" -> "mp_connected"
               [] OTHER -> IF conn_ok THEN "loop_sleep" ELSE "backoff_sleep"
    /\ UNCHANGED <<ret, wifiVars, timer_running, tickVars, mqtt_client,
                   last_measure_time, now, cycleVars, stop_requested, log, netVars>>

\* Variant of mc_ret in which main gives up and restarts when the initial
\* connect failed.
mc_ret_fatal ==
    /\ pc = "mc_ret"
    /\ pc' = CASE ret = "init" -> (IF conn_ok THEN "loop_test" ELSE "fatal_sleep")
               [] ret = "publish" -> "mp_connected"
               [] OTHER -> "loop_sleep"
    /\ UNCHANGED <<ret, wifiVars, timer_running, tickVars, mqtt_client,
                   last_measure_time, now, cycleVars, stop_requested, log, netVars>>

\* Return to the caller: main before the loop, mqtt_publish, or main's
\* reconnect after a failed cycle.
mc_ret ==
    /\ pc = "mc_ret"
    /\ pc' = CASE ret = "init" -> "loop_test"
               [] ret = "publish" -> "mp_connected"
               [] OTHER -> "loop_sleep"
    /\ UNCHANGED <<ret, wifiVars, timer_running, tickVars, mqtt_client,
                   last_measure_time, now, cycleVars, stop_requested, log, netVars>>

\* ----------------------------------------------------------------- main loop
\* if measure_pending:
loop_test ==
    /\ pc = "loop_test"
    /\ pc' = IF measure_pending THEN "loop_clear" ELSE "loop_sleep"
    /\ UNCHANGED <<ret, wifiVars, timer_running, tickVars, mqtt_client,
                   last_measure_time, now, cycleVars, stop_requested, log, netVars>>

\* Variant of loop_clear that forgets the assignment measure_pending = False.
loop_clear_forgotten ==
    /\ pc = "loop_clear"
    /\ ticks_since_take' = 0
    /\ pc' = "loop_stamp"
    /\ UNCHANGED <<ret, wifiVars, timer_running, measure_pending, owed, raced,
                   mqtt_client, last_measure_time, now, cycleVars,
                   stop_requested, log, netVars>>

\* measure_pending = False
loop_clear ==
    /\ pc = "loop_clear"
    /\ measure_pending' = FALSE
    /\ ticks_since_take' = 0
    /\ pc' = "loop_stamp"
    /\ UNCHANGED <<ret, wifiVars, timer_running, owed, raced, mqtt_client,
                   last_measure_time, now, cycleVars, stop_requested, log, netVars>>

\* last_measure_time = time.time(); success = measure_and_publish() is called:
\* a cycle starts.
loop_stamp ==
    /\ pc = "loop_stamp"
    /\ last_measure_time' = now
    /\ owed' = FALSE
    /\ log' = << >>
    /\ pc' = "map_measure"
    /\ UNCHANGED <<ret, wifiVars, timer_running, measure_pending,
                   ticks_since_take, raced, mqtt_client, now, cycleVars,
                   stop_requested, netVars>>

\* Variant of map_measure that drops the session when the sensor read fails.
map_measure_dropping ==
    /\ pc = "map_measure"
    /\ \/ \E t \in TempVals, h \in HumVals :
            /\ reading' = <<t, h>>
            /\ Logged("measure", mqtt_client, TRUE)
            /\ pc' = "map_payload"
            /\ UNCHANGED <<success, mqtt_client>>
       \/ /\ Logged("measure", mqtt_client, FALSE)
          /\ success' = FALSE
          /\ mqtt_client' = None
          /\ pc' = "loop_check"
          /\ UNCHANGED reading
    /\ UNCHANGED <<ret, wifiVars, timer_running, tickVars,
                   last_measure_time, now, payload_json, conn_ok, pub_ok,
                   stop_requested, netVars>>

\* try: dht_sensor.measure(); temp = ...; hum = ...
\* except Exception: return False
map_measure ==
    /\ pc = "map_measure"
    /\ \/ \E t \in TempVals, h \in HumVals :
            /\ reading' = <<t, h>>
            /\ Logged("measure", mqtt_client, TRUE)
            /\ pc' = "map_payload"
            /\ UNCHANGED success
       \/ /\ Logged("measure", mqtt_client, FALSE)
          /\ success' = FALSE
          /\ pc' = "loop_check"
          /\ UNCHANGED reading
    /\ UNCHANGED <<ret, wifiVars, timer_running, tickVars, mqtt_client,
                   last_measure_time, now, payload_json, conn_ok, pub_ok,
                   stop_requested, netVars>>

\* Variant of map_payload with temperature and humidity exchanged.
map_payload_swapped ==
    /\ pc = "map_payload"
    /\ payload_json' = json_dumps(Payload(now, reading[2], reading[1]))
    /\ pc' = "mp_enter"
    /\ UNCHANGED <<ret, wifiVars, timer_running, tickVars, mqtt_client,
                   last_measure_time, now, reading, conn_ok, pub_ok, success,
                   stop_requested, log, netVars>>

\* payload = {...}; payload_json = json.dumps(payload); mqtt_publish(payload_json)
\* is called.
map_payload ==
    /\ pc = "map_payload"
    /\ payload_json' = json_dumps(Payload(now, reading[1], reading[2]))
    /\ pc' = "mp_enter"
    /\ UNCHANGED <<ret, wifiVars, timer_running, tickVars, mqtt_client,
                   last_measure_time, now, reading, conn_ok, pub_ok, success,
                   stop_requested, log, netVars>>

\* Variant of mp_enter without the test mqtt_client is None.
mp_enter_no_check ==
    /\ pc = "mp_enter"
    /\ Logged("mqtt_publish", mqtt_client, TRUE)
    /\ pc' = "mp_publish"
    /\ UNCHANGED <<ret, wifiVars, timer_running, tickVars, mqtt_client,
                   last_measure_time, now, cycleVars, stop_requested, netVars>>

\* Variant of mp_enter that gives up when there is no client, without
\* calling mqtt_connect.
mp_enter_giving_up ==
    /\ pc = "mp_enter"
    /\ Logged("mqtt_publish", mqtt_client, TRUE)
    /\ IF mqtt_client = None
       THEN /\ pub_ok' = FALSE
            /\ pc' = "mp_ret"
       ELSE /\ pc' = "mp_publish"
            /\ UNCHANGED pub_ok
    /\ UNCHANGED <<ret, wifiVars, timer_running, tickVars, mqtt_client,
                   last_measure_time, now, reading, payload_json, conn_ok,
                   success, stop_requested, netVars>>

\* mqtt_publish: if mqtt_client is None: if not mqtt_connect(): ...
mp_enter ==
    /\ pc = "mp_enter"
    /\ Logged("mqtt_publish", mqtt_client, TRUE)
    /\ IF mqtt_client = None
       THEN /\ ret' = "publish"
            /\ pc' = "mc_enter"
       ELSE /\ pc' = "mp_publish"
            /\ UNCHANGED ret
    /\ UNCHANGED <<wifiVars, timer_running, tickVars, mqtt_client,
                   last_measure_time, now, cycleVars, stop_requested, netVars>>

\* Variant of mp_connected that ignores what mqtt_connect() returned.
mp_connected_unchecked ==
    /\ pc = "mp_connected"
    /\ pc' = "mp_publish"
    /\ UNCHANGED <<ret, wifiVars, timer_running, tickVars, mqtt_client,
                   last_measure_time, now, cycleVars, stop_requested, log, netVars>>

\* ... if not mqtt_connect(): return False
mp_connected ==
    /\ pc = "mp_connected"
    /\ IF conn_ok
       THEN /\ pc' = "mp_publish"
            /\ UNCHANGED pub_ok
       ELSE /\ pub_ok' = FALSE
            /\ pc' = "mp_ret"
    /\ UNCHANGED <<ret, wifiVars, timer_running, tickVars, mqtt_client,
                   last_measure_time, now, reading, payload_json, conn_ok,
                   success, stop_requested, log, netVars>>

\* try: mqtt_client.publish(MQTT_TOPIC, payload); return True
\* The transport publish returns or raises.
mp_publish ==
    /\ pc = "mp_publish"
    /\ \/ /\ sent' = <<MQTT_TOPIC, payload_json>>
          /\ Logged("publish", mqtt_client, TRUE)
          /\ pub_ok' = TRUE
          /\ pc' = "mp_ret"
          /\ UNCHANGED mqtt_client
       \/ /\ ~broker_good
          /\ Logged("publish", mqtt_client, FALSE)
          /\ mqtt_client' = "broken"
          /\ pc' = "mp_except"
          /\ UNCHANGED <<sent, pub_ok>>
    /\ UNCHANGED <<ret, wifiVars, timer_running, tickVars, last_measure_time,
                   now, reading, payload_json, conn_ok, success, stop_requested,
                   open_conns, broker_good>>

\* except Exception: try: mqtt_client.disconnect() except Exception: pass
\* mqtt_client = None; return False
\* The session the publish failed on is over either way: disconnect() closes
\* it, and where disconnect() raises the transport was already dead.
mp_except ==
    /\ pc = "mp_except"
    /\ \E ok \in BOOLEAN : Logged("disconnect", mqtt_client, ok)
    /\ mqtt_client' = PublishFailed(mqtt_client)
    /\ open_conns' = Closed(open_conns)
    /\ pub_ok' = FALSE
    /\ pc' = "mp_ret"
    /\ UNCHANGED <<ret, wifiVars, timer_running, tickVars, last_measure_time,
                   now, reading, payload_json, conn_ok, success, stop_requested,
                   sent, broker_good>>

\* measure_and_publish: if mqtt_publish(payload_json): return True
\* else: return False
mp_ret ==
    /\ pc = "mp_ret"
    /\ success' = pub_ok
    /\ pc' = "loop_check"
    /\ UNCHANGED <<ret, wifiVars, timer_running, tickVars, mqtt_client,
                   last_measure_time, now, reading, payload_json, conn_ok,
                   pub_ok, stop_requested, log, netVars>>

\* Variant of loop_check that clears the flag again once the cycle is over.
loop_check_clearing ==
    /\ pc = "loop_check"
    /\ measure_pending' = FALSE
    /\ reading' = << >>
    /\ payload_json' = << >>
    /\ sent' = << >>
    /\ pc' = IF ~success THEN "backoff_sleep" ELSE "loop_sleep"
    /\ UNCHANGED <<ret, wifiVars, timer_running, owed, ticks_since_take, raced,
                   mqtt_client, last_measure_time, now, conn_ok, pub_ok,
                   success, stop_requested, log, open_conns,
                   broker_good>>

\* if not success: print("Attempting reconnect in 5s...")
\* measure_and_publish has returned: its locals are gone.
loop_check ==
    /\ pc = "loop_check"
    /\ reading' = << >>
    /\ payload_json' = << >>
    /\ sent' = << >>
    /\ pc' = IF ~success THEN "backoff_sleep" ELSE "loop_sleep"
    /\ UNCHANGED <<ret, wifiVars, timer_running, tickVars, mqtt_client,
                   last_measure_time, now, conn_ok, pub_ok, success,
                   stop_requested, log, open_conns, broker_good>>

\* Variant of backoff_sleep that clears the flag after the sleep.
backoff_sleep_clearing ==
    /\ pc = "backoff_sleep"
    /\ Logged("sleep5", mqtt_client, TRUE)
    /\ measure_pending' = FALSE
    /\ ret' = "backoff"
    /\ pc' = "mc_enter"
    /\ UNCHANGED <<wifiVars, timer_running, owed, ticks_since_take, raced,
                   mqtt_client, last_measure_time, now, cycleVars,
                   stop_requested, netVars>>

\* time.sleep(5); mqtt_connect() is called.
backoff_sleep ==
    /\ pc = "backoff_sleep"
    /\ Logged("sleep5", mqtt_client, TRUE)
    /\ ret' = "backoff"
    /\ pc' = "mc_enter"
    /\ UNCHANGED <<wifiVars, timer_running, tickVars, mqtt_client,
                   last_measure_time, now, cycleVars, stop_requested, netVars>>

\* Variant of loop_sleep that clears the flag at the end of the iteration.
loop_sleep_clearing ==
    /\ pc = "loop_sleep"
    /\ log' = << >>
    /\ raced' = FALSE
    /\ conn_ok' = FALSE
    /\ pub_ok' = FALSE
    /\ success' = FALSE
    /\ measure_pending' = FALSE
    /\ pc' = "loop_test"
    /\ UNCHANGED <<ret, wifiVars, timer_running, owed,
                   ticks_since_take, mqtt_client, last_measure_time, now,
                   reading, payload_json, stop_requested, netVars>>

\* time.sleep_ms(100), and the loop goes round.  The values returned during
\* the iteration are dead from here on.
loop_sleep ==
    /\ pc = "loop_sleep"
    /\ log' = << >>
    /\ raced' = FALSE
    /\ conn_ok' = FALSE
    /\ pub_ok' = FALSE
    /\ success' = FALSE
    /\ pc' = "loop_test"
    /\ UNCHANGED <<ret, wifiVars, timer_running, measure_pending, owed,
                   ticks_since_take, mqtt_client, last_measure_time, now,
                   reading, payload_json, stop_requested, netVars>>

\* ------------------------------------------------- stop request and shutdown
\* Positions of main() inside its try block (mqtt_connect is inside when it
\* was called from mqtt_publish or from the reconnect, not from the initial
\* connect).
LoopPcs == {"loop_test", "loop_clear", "loop_stamp", "map_measure",
            "map_payload", "mp_enter", "mp_connected", "mp_publish",
            "mp_except", "mp_ret", "loop_check", "backoff_sleep", "loop_sleep"}
ConnectPcs == {"mc_enter", "mc_connect", "mc_result", "mc_ret"}
StartupPcs == {"cw_check", "cw_begin", "cw_poll", "cw_deadline", "cw_sleep",
               "cw_done", "fatal_sleep", "timer_init"}
InTry == pc \in LoopPcs \/ (pc \in ConnectPcs /\ ret # "init")
BeforeTry == pc \in StartupPcs \/ (pc \in ConnectPcs /\ ret = "init")

\* KeyboardInterrupt raised while main() is inside try: it is no Exception, so
\* no inner handler catches it; control goes to except KeyboardInterrupt.
KeyboardInterruptInTry ==
    /\ ~stop_requested
    /\ InTry
    /\ stop_requested' = TRUE
    /\ pc' = "except_kbd"
    /\ UNCHANGED <<ret, wifiVars, timer_running, tickVars, mqtt_client,
                   last_measure_time, now, cycleVars, log, netVars>>

\* KeyboardInterrupt raised before main() has entered try (connect_wifi, the
\* restart delay, the timer start, the initial mqtt_connect): nothing catches
\* it and main() ends with the exception.
KeyboardInterruptBeforeTry ==
    /\ ~stop_requested
    /\ BeforeTry
    /\ stop_requested' = TRUE
    /\ pc' = "aborted"
    /\ UNCHANGED <<ret, wifiVars, timer_running, tickVars, mqtt_client,
                   last_measure_time, now, cycleVars, log, netVars>>

\* except KeyboardInterrupt: print("Stopped by user")
except_kbd ==
    /\ pc = "except_kbd"
    /\ pc' = "fin_deinit"
    /\ UNCHANGED <<ret, wifiVars, timer_running, tickVars, mqtt_client,
                   last_measure_time, now, cycleVars, stop_requested, log, netVars>>

\* finally: try: tm.deinit() except Exception: pass
fin_deinit ==
    /\ pc = "fin_deinit"
    /\ \E ok \in BOOLEAN :
        /\ timer_running' = IF ok THEN FALSE ELSE timer_running
        /\ Logged("deinit", mqtt_client, ok)
    /\ pc' = "fin_disconnect"
    /\ UNCHANGED <<ret, wifiVars, tickVars, mqtt_client, last_measure_time,
                   now, cycleVars, stop_requested, netVars>>

\* try: if mqtt_client: mqtt_client.disconnect() except Exception: pass
fin_disconnect ==
    /\ pc = "fin_disconnect"
    /\ IF mqtt_client # None
       THEN \E ok \in BOOLEAN :
              /\ mqtt_client' = IF ok THEN "closed" ELSE mqtt_client
              /\ open_conns' = IF ok THEN Closed(open_conns) ELSE open_conns
              /\ Logged("disconnect", mqtt_client, ok)
       ELSE UNCHANGED <<mqtt_client, log, open_conns>>
    /\ pc' = "exited"
    /\ UNCHANGED <<ret, wifiVars, timer_running, tickVars, last_measure_time,
                   now, cycleVars, stop_requested, sent, broker_good>>

\* ------------------------------------------------------------ specification
Next ==
    \/ timer_callback
    \/ LinkUp
    \/ LinkDown
    \/ ClockAdvance
    \/ BrokerRecovers
    \/ cw_check
    \/ cw_begin
    \/ cw_poll
    \/ cw_deadline
    \/ cw_sleep
    \/ cw_done
    \/ fatal_sleep
    \/ machine_reset
    \/ timer_init
    \/ mc_enter
    \/ mc_connect
    \/ mc_result
    \/ mc_ret
    \/ loop_test
    \/ loop_clear
    \/ loop_stamp
    \/ map_measure
    \/ map_payload
    \/ mp_enter
    \/ mp_connected
    \/ mp_publish
    \/ mp_except
    \/ mp_ret
    \/ loop_check
    \/ backoff_sleep
    \/ loop_sleep
    \/ KeyboardInterruptInTry
    \/ KeyboardInterruptBeforeTry
    \/ except_kbd
    \/ fin_deinit
    \/ fin_disconnect

Spec == Init /\ [][Next]_vars

\* The steps of main(): every call it makes returns and main() goes on.  The
\* timer, the link, the clock and the stop request are under no obligation.
MainStep ==
    \/ cw_check \/ cw_begin \/ cw_poll \/ cw_deadline \/ cw_sleep \/ cw_done
    \/ fatal_sleep \/ machine_reset \/ timer_init
    \/ mc_enter \/ mc_connect \/ mc_result \/ mc_ret
    \/ loop_test \/ loop_clear \/ loop_stamp
    \/ map_measure \/ map_payload
    \/ mp_enter \/ mp_connected \/ mp_publish \/ mp_except \/ mp_ret
    \/ loop_check \/ backoff_sleep \/ loop_sleep
    \/ except_kbd \/ fin_deinit \/ fin_disconnect

FairSpec == Spec /\ WF_vars(MainStep)

TypeOK ==
    /\ pc \in LoopPcs \cup ConnectPcs \cup StartupPcs
              \cup {"reset", "except_kbd", "fin_deinit", "fin_disconnect",
                    "exited", "aborted"}
    /\ ret \in {"init", "publish", "backoff"}
    /\ link \in BOOLEAN
    /\ wifi_connected \in BOOLEAN
    /\ elapsed \in 0..(WIFI_TIMEOUT + 1)
    /\ half \in {0, 1}
    /\ timer_running \in BOOLEAN
    /\ measure_pending \in BOOLEAN
    /\ mqtt_client \in ClientStates
    /\ last_measure_time \in 0..MaxNow
    /\ now \in 0..MaxNow
    /\ reading \in {<< >>} \cup (TempVals \X HumVals)
    /\ conn_ok \in BOOLEAN
    /\ pub_ok \in BOOLEAN
    /\ success \in BOOLEAN
    /\ stop_requested \in BOOLEAN
    /\ owed \in BOOLEAN
    /\ ticks_since_take \in 0..MaxTicks
    /\ raced \in BOOLEAN
    /\ open_conns \in 0..MaxOpen
    /\ broker_good \in BOOLEAN

\* ------------------------------------------------------ reading the log
HasEv(op) == \E i \in 1..Len(log) : log[i].op = op
CountEv(op) == Cardinality({i \in 1..Len(log) : log[i].op = op})

\* How the cycle recorded in the log ended, in the spec's vocabulary:
\* the sensor read raised (SensorReadError); mqtt_publish found no client and
\* its connect failed (NotConnected); the transport publish raised
\* (PublishError) or returned (Published).
CycleOutcome ==
    IF log = << >> \/ log[1].op # "measure" THEN "none"
    ELSE IF ~log[1].ok THEN "SensorReadError"
    ELSE IF \E i \in 1..Len(log) : log[i].op = "publish" /\ log[i].ok
         THEN "Published"
    ELSE IF \E i \in 1..Len(log) : log[i].op = "publish" /\ ~log[i].ok
         THEN "PublishError"
    ELSE IF /\ Len(log) >= 4
            /\ log[2].op = "mqtt_publish" /\ log[2].st = None
            /\ log[4].op = "connect" /\ ~log[4].ok
         THEN "NotConnected"
    ELSE "running"

\* ------------------------------------------------------------------ claims

\* C1: no set of measure_pending is lost, whatever the interleaving of the
\* timer callback with the main loop's test and clear: as long as a tick has
\* not been followed by the start of a cycle, either the flag is still true
\* (the next poll takes it) or the main loop has tested it true and is on its
\* way to start the cycle.
C1_NoLostSet ==
    (owed /\ ~stop_requested) =>
        (measure_pending \/ pc \in {"loop_clear", "loop_stamp"})

\* A tick fired between the test and the clear of a poll, the clear wiped the
\* flag, and the cycle of that poll has started after the tick.
C1_Witness ==
    /\ raced
    /\ pc = "map_measure"
    /\ ~measure_pending
    /\ ~owed

\* C2 (amended): a take returns true only if the timer has set the flag since
\* the previous clear: at most one true take per tick, never a second one
\* before the flag is set again.
C2_TakeNeedsTick ==
    pc = "loop_clear" => ticks_since_take >= 1

\* Two ticks fired while the main loop was busy with a cycle and its 5 s
\* backoff, and a single pending flag is what is left of them.
C2_Witness ==
    /\ pc = "loop_sleep"
    /\ HasEv("sleep5")
    /\ ticks_since_take = 2
    /\ measure_pending

\* C2 (as claimed): exactly one true take per elapsed period, i.e. every true
\* take accounts for exactly one tick.
C2_ExactlyOneTakePerTick ==
    pc = "loop_clear" => ticks_since_take = 1

\* C3 (as claimed): after a sensor read failure the main loop neither sleeps
\* the backoff delay nor calls mqtt_connect.
C3_SensorFailureStaysRunning ==
    CycleOutcome = "SensorReadError" =>
        (~HasEv("sleep5") /\ ~HasEv("mqtt_connect") /\ pc # "backoff_sleep")

\* main() is inside the call mqtt_publish(payload_json).
InPublishCall ==
    \/ pc \in {"mp_connected", "mp_publish", "mp_except", "mp_ret"}
    \/ (pc \in ConnectPcs /\ ret = "publish")

\* mqtt_publish was entered with mqtt_client None.
EnteredDisconnected ==
    \E i \in 1..Len(log) : log[i].op = "mqtt_publish" /\ log[i].st = None

ConnectSucceeded == \E i \in 1..Len(log) : log[i].op = "connect" /\ log[i].ok
ConnectRaised == \E i \in 1..Len(log) : log[i].op = "connect" /\ ~log[i].ok
PublishRaised == \E i \in 1..Len(log) : log[i].op = "publish" /\ ~log[i].ok

\* Transport connects made after the backoff sleep.
BackoffConnects ==
    Cardinality({j \in 1..Len(log) :
        /\ log[j].op = "connect"
        /\ \E i \in 1..(j - 1) : log[i].op = "sleep5"})

\* C4 (as claimed): mqtt_connect entered with a connected client starts no
\* transport connect and leaves the client connected.
C4_ConnectWhileConnectedIsNoOp ==
    \A i \in 1..Len(log) :
        (log[i].op = "mqtt_connect" /\ log[i].st = "connected") =>
            /\ \A j \in (i + 1)..Len(log) : log[j].op # "connect"
            /\ (pc \in ConnectPcs => mqtt_client = "connected")

\* C5 (amended): mqtt_publish entered with mqtt_client None makes exactly one
\* connect attempt first; when that attempt fails it returns False without a
\* transport publish, and a transport publish is made only after that connect
\* succeeded.
C5_PublishWhileDisconnectedConnectsFirst ==
    (InPublishCall /\ EnteredDisconnected) =>
        /\ CountEv("connect") <= 1
        /\ (pc \notin ConnectPcs => CountEv("connect") = 1)
        /\ ((pc = "mp_publish" \/ HasEv("publish")) => ConnectSucceeded)
        /\ ((pc = "mp_ret" /\ ConnectRaised) =>
                (~pub_ok /\ ~HasEv("publish") /\ mqtt_client = None))

\* mqtt_publish found no client, its connect attempt failed and it is about
\* to return False.
C5_Witness ==
    /\ pc = "mp_ret"
    /\ EnteredDisconnected
    /\ ConnectRaised
    /\ ~pub_ok

\* C5 (as claimed): mqtt_publish entered with mqtt_client None fails at once
\* and does no I/O: no transport connect, no transport publish.
C5_PublishWhileDisconnectedNoIO ==
    (InPublishCall /\ EnteredDisconnected) =>
        /\ ~HasEv("connect")
        /\ ~HasEv("publish")
        /\ (pc = "mp_ret" => ~pub_ok)

\* C6: when the transport publish raises, mqtt_publish returns False with
\* mqtt_client None, whether or not the cleanup disconnect raised, and no
\* transport publish is ever made on a client whose publish has raised.
C6_PublishFailureDisconnects ==
    /\ ((pc = "mp_ret" /\ PublishRaised) => (~pub_ok /\ mqtt_client = None))
    /\ (pc \in {"mp_enter", "mp_publish"} => mqtt_client # "broken")

\* The transport publish raised, the cleanup disconnect raised too, and
\* mqtt_publish is about to return.
C6_Witness ==
    /\ pc = "mp_ret"
    /\ PublishRaised
    /\ \E i \in 1..Len(log) : log[i].op = "disconnect" /\ ~log[i].ok

\* C7: when the transport connect fails, mqtt_connect returns False with
\* mqtt_client None, whatever the client was before; a client whose connect
\* is unfinished is seen by no later operation of the running program.
C7_ConnectFailureDisconnects ==
    /\ ((pc = "mc_ret" /\ ~conn_ok) => mqtt_client = None)
    /\ ((mqtt_client = "connecting" /\ ~stop_requested) => pc = "mc_result")

\* mqtt_connect was entered with a connected client, the connect failed, and
\* it is about to return False.
C7_Witness ==
    /\ pc = "mc_ret"
    /\ ~conn_ok
    /\ \E i \in 1..Len(log) : log[i].op = "mqtt_connect" /\ log[i].st = "connected"

\* C8: the transport publish is invoked only on a connected client (its last
\* connect succeeded and no publish has raised on it since); when mqtt_publish
\* found no client, a successful connect precedes the publish.
C8_PublishOnlyWhenConnected ==
    /\ (pc = "mp_publish" => mqtt_client = "connected")
    /\ \A i \in 1..Len(log) : log[i].op = "publish" => log[i].st = "connected"
    /\ ((pc = "mp_publish" /\ EnteredDisconnected) => ConnectSucceeded)

\* mqtt_publish found no client, reconnected, and is about to publish.
C8_Witness ==
    /\ pc = "mp_publish"
    /\ EnteredDisconnected
    /\ ConnectSucceeded
    /\ mqtt_client = "connected"

\* C9 (amended): after a cycle that ended in NotConnected or PublishError the
\* main loop sleeps the backoff delay exactly once and makes exactly one
\* connect attempt, then returns to polling whatever that attempt gave; with
\* the connect attempt mqtt_publish may have made inside the cycle, a failed
\* cycle costs at most one backoff delay and at most two connect attempts.
C9_OneBackoffPerFailedCycle ==
    CycleOutcome \in {"NotConnected", "PublishError"} =>
        /\ CountEv("sleep5") <= 1
        /\ BackoffConnects <= 1
        /\ CountEv("connect") <= 2
        /\ (pc = "loop_sleep" => (CountEv("sleep5") = 1 /\ BackoffConnects = 1))

\* A cycle ended in NotConnected, the reconnect after the backoff failed too,
\* and the main loop is back at its poll sleep.
C9_Witness ==
    /\ pc = "loop_sleep"
    /\ CycleOutcome = "NotConnected"
    /\ CountEv("connect") = 2
    /\ ~log[Len(log)].ok

\* C9 (as claimed): a failed cycle costs at most one backoff delay and one
\* connect attempt.
C9_AtMostOneConnectPerFailedCycle ==
    CycleOutcome \in {"NotConnected", "PublishError"} =>
        (CountEv("sleep5") <= 1 /\ CountEv("connect") <= 1)

\* The finally block has run: tm.deinit() was called and, if there is a client,
\* its disconnect() after that.
DeinitCalled == HasEv("deinit")
FinallyDisconnectCalled ==
    \E i \in 1..Len(log) : \E j \in (i + 1)..Len(log) :
        log[i].op = "deinit" /\ log[j].op = "disconnect"

\* C10 (as claimed): when main() has ended on a stop request, the timer that
\* was started has been stopped (deinit called) and the session has been
\* disconnected (there is no client, or disconnect was called on it).
C10_StopAlwaysCleansUp ==
    (stop_requested /\ pc \in {"exited", "aborted"}) =>
        /\ (timer_running => DeinitCalled)
        /\ (mqtt_client = None \/ FinallyDisconnectCalled)

\* C11: the device restarts if and only if connect_wifi timed out at startup:
\* the restart delay is entered only from the deadline test with the timeout
\* exceeded, and then leads to machine.reset() with the timer never started
\* and no mqtt_connect made; once main() is past startup, it leaves its loop
\* only on a stop request, whatever the sensor, the connects, the publishes
\* and the link do.
C11_RestartOnlyOnLinkTimeout ==
    [][ /\ ((pc' = "fatal_sleep" /\ pc # "fatal_sleep") =>
                (pc = "cw_deadline" /\ elapsed > WIFI_TIMEOUT))
        /\ ((pc = "cw_deadline" /\ elapsed > WIFI_TIMEOUT /\ pc' # pc) =>
                pc' \in {"fatal_sleep", "aborted"})
        /\ ((pc = "fatal_sleep" /\ pc' # pc) => pc' \in {"reset", "aborted"})
        /\ (pc' = "reset" =>
                /\ pc \in {"fatal_sleep", "reset"}
                /\ ~timer_running'
                /\ mqtt_client' = None
                /\ log' = << >>)
        /\ ((pc \in LoopPcs \cup ConnectPcs /\ pc' \notin LoopPcs \cup ConnectPcs)
                => stop_requested')
      ]_vars

\* connect_wifi has timed out and the device is about to restart, the timer
\* not started.
C11_Witness ==
    /\ pc = "reset"
    /\ ~timer_running
    /\ ~wifi_connected

\* C13: when the sensor read fails, measure_and_publish returns False having
\* called neither mqtt_publish nor the transport (the read is the only entry
\* of the cycle's log, no payload was built), and mqtt_client is what it was
\* when the read was made.
C13_SensorFailureLeavesSession ==
    (pc = "loop_check" /\ CycleOutcome = "SensorReadError") =>
        /\ ~success
        /\ Len(log) = 1
        /\ payload_json = << >>
        /\ mqtt_client = log[1].st

\* The sensor read failed in a cycle that ran with a connected session, and
\* measure_and_publish has just returned.
C13_Witness ==
    /\ pc = "loop_check"
    /\ CycleOutcome = "SensorReadError"
    /\ mqtt_client = "connected"

\* C14: the timer is started and mqtt_connect is called only after
\* connect_wifi has returned True, which it does only from a test that saw the
\* link up; main then starts the timer, makes exactly one initial mqtt_connect
\* and enters the poll loop whether that connect returned True or False.
C14_RunningAfterLinkUp ==
    [][ /\ ((timer_running' \/ mqtt_client' # None
                \/ pc' \in ConnectPcs \cup LoopPcs) => wifi_connected')
        /\ ((wifi_connected' /\ ~wifi_connected) => pc = "cw_done")
        /\ ((pc' = "cw_done" /\ pc # "cw_done") => link)
        /\ ((pc = "cw_done" /\ pc' # pc) => pc' \in {"timer_init", "aborted"})
        /\ ((pc = "timer_init" /\ pc' # pc) =>
                \/ (timer_running' /\ pc' = "mc_enter" /\ ret' = "init")
                \/ pc' = "aborted")
        /\ ((pc = "mc_ret" /\ ret = "init" /\ pc' # pc) =>
                \/ (pc' = "loop_test" /\ CountEv("connect") = 1)
                \/ pc' = "aborted")
      ]_vars

\* The initial connect failed and main has entered its poll loop all the same,
\* the timer running.
C14_Witness ==
    /\ pc = "loop_test"
    /\ ret = "init"
    /\ timer_running
    /\ mqtt_client = None
    /\ Len(log) = 2
    /\ log[2].op = "connect"
    /\ ~log[2].ok

\* C15: connect_wifi ends, in one of two ways.  It returns True only from a
\* test of wlan.isconnected() that saw the link up, at once and without
\* wlan.connect() when the link is up at the call, and from the first poll
\* that sees it up otherwise; it returns False only from the deadline test
\* with more than the timeout elapsed, and then it does; wlan.connect() is
\* issued at most once per call.
C15_ConnectWifiEnds ==
    /\ [][ /\ ((pc' = "cw_done" /\ pc # "cw_done") =>
                   (link /\ pc \in {"cw_check", "cw_poll"}))
           /\ ((pc \in {"cw_check", "cw_poll"} /\ link /\ pc' # pc) =>
                   pc' \in {"cw_done", "aborted"})
           /\ ((pc' = "cw_begin" /\ pc # "cw_begin") =>
                   (pc = "cw_check" /\ ~link))
           /\ ((pc' = "cw_check" /\ pc # "cw_check") => pc = "reset")
           /\ ((pc' = "fatal_sleep" /\ pc # "fatal_sleep") =>
                   (pc = "cw_deadline" /\ elapsed > WIFI_TIMEOUT))
           /\ ((pc = "cw_deadline" /\ elapsed > WIFI_TIMEOUT /\ pc' # pc) =>
                   pc' \in {"fatal_sleep", "aborted"})
           /\ elapsed' <= WIFI_TIMEOUT + 1
         ]_vars
    /\ (pc = "cw_check" ~> (pc \in {"timer_init", "fatal_sleep"} \/ stop_requested))

\* The link came up in the last second before the deadline test would have
\* failed, and the poll saw it.
C15_Witness ==
    /\ pc = "cw_done"
    /\ elapsed = WIFI_TIMEOUT + 1
    /\ link

\* A step in which the timer callback ran, told by its bookkeeping (no step
\* of main() leaves the flag set, a tick owed, and one of the tick records
\* raised).
TickStep ==
    /\ measure_pending'
    /\ owed'
    /\ \/ ~measure_pending
       \/ ~owed
       \/ ticks_since_take' > ticks_since_take
       \/ (raced' /\ ~raced)

\* What the program itself holds, apart from the flag.
ProgramVars == <<pc, ret, link, wifi_connected, elapsed, half, timer_running,
                 mqtt_client, last_measure_time, now, reading, payload_json,
                 conn_ok, pub_ok, success, stop_requested, sent>>

\* C16: the timer callback changes nothing but measure_pending, which it
\* leaves True: the client, the link, last_measure_time, the sensor reading and
\* the position of main() are as before; when the flag was already set, the
\* program's state after the callback is the state before it.
C16_CallbackTouchesOnlyFlag ==
    [][ TickStep =>
          /\ UNCHANGED ProgramVars
          /\ measure_pending'
          /\ (measure_pending => UNCHANGED <<ProgramVars, measure_pending, log>>)
      ]_vars

\* The callback has run twice since the flag was last cleared; one set flag
\* is what the main loop is about to test.
C16_Witness ==
    /\ pc = "loop_test"
    /\ ticks_since_take = 2
    /\ measure_pending

\* The text m, read back, is the sample of the current cycle: exactly the four
\* keys, the thing name, the reading, and a timestamp taken in this cycle.
SampleOf(m) ==
    LET d == json_loads(m)
    IN  /\ Len(m) = 4
        /\ DOMAIN d = {"thing", "timestamp", "temperature_C", "humidity_pct"}
        /\ d["thing"] = THING_NAME
        /\ d["temperature_C"] = reading[1]
        /\ d["humidity_pct"] = reading[2]
        /\ d["timestamp"] \in last_measure_time .. now

\* C18: after a successful sensor read (t, h) the message handed to publish
\* is a map with exactly the keys thing, timestamp, temperature_C and
\* humidity_pct, holding the thing name, the time read when the payload is
\* built, t and h; it goes out on devices/{thing}/telemetry; read back, it
\* gives the same t, h and timestamp.
C18_PayloadCarriesTheSample ==
    /\ [] (pc \in {"mp_enter", "mp_connected", "mp_publish"} => SampleOf(payload_json))
    /\ [] (pc = "mp_ret" /\ pub_ok =>
              /\ sent[2] = payload_json
              /\ SampleOf(sent[2])
              /\ sent[1] = "devices/" \o json_loads(sent[2])["thing"] \o "/telemetry")
    /\ [][ pc = "map_payload" /\ pc' = "mp_enter" =>
              /\ json_loads(payload_json')["timestamp"] = now
              /\ json_loads(payload_json')["temperature_C"] = reading[1]
              /\ json_loads(payload_json')["humidity_pct"] = reading[2]
              /\ json_loads(json_dumps(json_loads(payload_json'))) = json_loads(payload_json')
         ]_vars

\* A published sample: 24 degrees, 55 percent, stamped 1.
C18_Witness ==
    /\ pc = "mp_ret"
    /\ pub_ok
    /\ reading = <<24, 55>>
    /\ sent = << "devices/Your thing name/telemetry",
                 << <<"thing", "Your thing name">>, <<"timestamp", 1>>,
                    <<"temperature_C", 24>>, <<"humidity_pct", 55>> >> >>

\* C19: measure_pending goes from True to False only in the assignment that
\* precedes measure_and_publish, and a cycle starts only from that
\* assignment; so a tick during a cycle, a publish or the backoff sleep stays
\* set until the next test, which then starts a cycle.  Between two cycles
\* the loop passes through its 100 ms sleep: one cycle per iteration at most.
C19_FlagClearedOnlyBeforeCycle ==
    [][ /\ (measure_pending /\ ~measure_pending') =>
              (pc = "loop_clear" /\ pc' = "loop_stamp")
        /\ (pc' = "loop_stamp" /\ pc # "loop_stamp") =>
              (pc = "loop_clear" /\ ~measure_pending')
        /\ (pc' = "map_measure" /\ pc # "map_measure") => pc = "loop_stamp"
        /\ (pc' = "loop_clear" /\ pc # "loop_clear") =>
              (pc = "loop_test" /\ measure_pending)
        /\ (pc = "loop_test" /\ measure_pending /\ pc' # pc) =>
              pc' \in {"loop_clear", "except_kbd"}
        /\ (pc' = "loop_test" /\ pc # "loop_test") =>
              (pc = "loop_sleep" \/ (pc = "mc_ret" /\ ret = "init"))
      ]_vars

\* A tick arrived during the backoff of a failed cycle and is still set while
\* the reconnect is under way.
C19_Witness ==
    /\ pc = "mc_result"
    /\ ret = "backoff"
    /\ HasEv("sleep5")
    /\ measure_pending
    /\ ticks_since_take >= 1

\* C20: with main() scheduled fairly and every blocking call returning, a set
\* flag leads to a call of measure_and_publish that has taken every tick so
\* far, whatever the sensor, connect and publish outcomes are, unless the
\* program is stopped first.
C20_SetFlagIsConsumed ==
    measure_pending ~> ((pc = "map_measure" /\ ~owed) \/ stop_requested)

\* The flag is set while the loop sits in the backoff of a failed cycle.
C20_Witness ==
    /\ pc = "backoff_sleep"
    /\ measure_pending
    /\ owed
    /\ ~stop_requested

\* C17: at most one session is open at any time: the sessions connect() has
\* opened and nothing has closed never number more than one, also after the
\* connects made from the backoff and after failed publishes.
C17_AtMostOneOpenSession == open_conns <= 1

\* The spec's reading of a cycle that reaches mqtt_publish without a session
\* while the broker accepts: it ends as NotConnected and the loop backs off.
\* C12 (as stated): a cycle that runs Disconnected, with the broker accepting
\* from then on, reports NotConnected and goes through the backoff before a
\* later cycle publishes.
C12_DisconnectedCycleReportsNotConnected ==
    (pc = "mp_enter" /\ mqtt_client = None /\ broker_good) ~>
        ((pc = "loop_check" /\ CycleOutcome = "NotConnected") \/ stop_requested)

\* C12: recovery.  A cycle that reaches mqtt_publish without a session while
\* the broker accepts from then on connects inside mqtt_publish and publishes
\* in that same cycle, without NotConnected and without backoff; a cycle
\* without a session whose sensor read fails goes through the backoff, whose
\* connect brings the session back.
C12_DisconnectedCycleRecovers ==
    /\ (pc = "mp_enter" /\ mqtt_client = None /\ broker_good) ~>
           (\/ /\ pc = "mp_ret"
               /\ pub_ok
               /\ EnteredDisconnected
               /\ CycleOutcome = "Published"
               /\ ~HasEv("sleep5")
               /\ mqtt_client = "connected"
            \/ stop_requested)
    /\ (pc = "loop_check" /\ ~success /\ mqtt_client = None /\ broker_good) ~>
           (\/ /\ pc = "loop_sleep"
               /\ HasEv("sleep5")
               /\ mqtt_client = "connected"
            \/ stop_requested)

\* A cycle found no session, the broker accepts, and the cycle has published.
C12_Witness ==
    /\ pc = "mp_ret"
    /\ pub_ok
    /\ broker_good
    /\ EnteredDisconnected
    /\ ConnectSucceeded
    /\ sent # << >>

====
